---- MODULE Spec2Model ----
(***************************************************************************)
(* The research-assistant query pipeline of backend/src/workflows/flow.py: *)
(* process_query -> gather_context_from_all_sources ->                     *)
(* evaluate_context_relevance -> synthesize_final_response, with the       *)
(* normaliser _parse_agent_result and the arbiter inside the last stage.   *)
(*                                                                         *)
(* Confidences and relevance scores are integers in units of 0.0001, so    *)
(* 1 is 0.0001, 5000 is 0.5 and 10000 is 1.0.                              *)
(*                                                                         *)
(* A string is a sequence of words; a word contains a needle when the      *)
(* needle is one of Needles(word).  A raw task output is described by what *)
(* json.loads makes of it: a JSON object (a function from field names to   *)
(* values), another JSON value, or text that is not JSON.                  *)
(***************************************************************************)
EXTENDS Integers, Sequences, FiniteSets, TLC

VARIABLES
    pc,                 \* position of the flow: the stage that has finished
    tasks_output,       \* outcome of the four context tasks of the last kickoff
    context_sources,    \* flow_state["context_sources"]
    evaluation_result,  \* flow_state["evaluation_result"]
    filtered_context,   \* flow_state["filtered_context"]
    result,             \* the dict synthesize_final_response returns
    memory,             \* the turns saved through memory_layer, oldest first
    raw_result,         \* argument of a single _parse_agent_result call
    parsed_result,      \* what that call returned or raised
    query,              \* state.query, as passed to kickoff(inputs=...)
    evaluation_output,  \* outcome of the evaluation task of the last kickoff
    task_state,         \* progress of the four context tasks inside one kickoff
    in_flight,          \* the requests running on the shared assistant
    summarize_args,     \* arguments of a single _summarize_for_memory call
    summarized_response, \* what that call returned
    server,             \* api_server.py: its globals, temp files and responses
    vector_db,          \* retriever.py: the client cache and the collections
    response_data       \* api_server.py: what query() answers after kickoff

crew_vars == <<task_state>>

thread_vars == <<in_flight>>

condense_vars == <<summarize_args, summarized_response>>

module_vars == <<server, vector_db, response_data>>

vars == <<pc, tasks_output, context_sources, evaluation_result,
          filtered_context, result, memory, raw_result, parsed_result,
          query, evaluation_output, crew_vars, thread_vars, condense_vars,
          module_vars>>

(***************************************************************************)
(* Bounds of the model.                                                    *)
(***************************************************************************)
MaxRelevant == 2
MaxCitations == 2
MaxWords == 2
MaxLength == 7
MaxRequests == 4
MaxInstances == 3
MaxInserts == 3
MaxChunks == 2

(***************************************************************************)
(* Program constants.                                                      *)
(***************************************************************************)
HighConfidence == 5000
TextDefaultConfidence == 5000
QueryMaxLength == 1500
DefaultMaxLength == 2000

None == [none |-> TRUE]

Range(s) == {s[i] : i \in DOMAIN s}

EmptyDict == [k \in {} |-> k]

(***************************************************************************)
(* The (display name, context key) pairs in the order the arbiter scans    *)
(* them, which is also the insertion order of context_sources.             *)
(***************************************************************************)
SourceNames == <<"RAG", "Memory", "Web", "ArXiv">>

SourceKeys == <<"rag_result", "memory_result", "web_result", "tool_result">>

KeyOf(name) == SourceKeys[CHOOSE i \in 1..4 : SourceNames[i] = name]

(***************************************************************************)
(* Words, and the needles the code searches for inside them.               *)
(***************************************************************************)
Words == {"fine", "error", "Error", "ValueError", "failed", "FAILED", "status"}

Needles(w) ==
    CASE w = "error" -> {"error"}
      [] w = "Error" -> {"Error"}
      [] w = "ValueError" -> {"Error"}
      [] w = "valueerror" -> {"error"}
      [] w = "failed" -> {"failed"}
      [] w = "status" -> {"status"}
      [] OTHER -> {}

Lower(w) ==
    CASE w = "Error" -> "error"
      [] w = "ValueError" -> "valueerror"
      [] w = "FAILED" -> "failed"
      [] OTHER -> w

LowerText(text) == [i \in DOMAIN text |-> Lower(text[i])]

Contains(text, needle) == \E i \in DOMAIN text : needle \in Needles(text[i])

(***************************************************************************)
(* JSON values.  An object is [json |-> "object", value |-> d] with d a    *)
(* function from field names to values; an array or a string carries its   *)
(* elements or words; text that json.loads rejects is "invalid".           *)
(***************************************************************************)
JsonObject(d) == [json |-> "object", value |-> d]

IsDict(v) == v.json = "object"

TextFields == {"answer", "error", "error_type"}

\* x in parsed, for the containers that support the operator
In(x, parsed) ==
    CASE parsed.json = "object" -> x \in DOMAIN parsed.value
      [] parsed.json = "array" -> x \in Range(parsed.value)
      [] parsed.json = "string" -> Contains(parsed.value, x)

\* needle in str(parsed)
InStr(needle, parsed) ==
    IF parsed.json = "object"
    THEN \E f \in DOMAIN parsed.value \cap TextFields :
             Contains(parsed.value[f], needle)
    ELSE Contains(parsed.value, needle)

\* d.get(field, default)
Get(d, field, default) == IF field \in DOMAIN d THEN d[field] ELSE default

\* truth value of a string or a list
Truthy(x) == x # <<>>

Returned(v) == [raised |-> "", value |-> v]

Raised(exc) == [raised |-> exc]

WithStatus_KnownFields(parsed, status) ==
    LET kept == DOMAIN parsed.value
                    \cap {"source_used", "answer", "citations", "confidence"}
    IN  JsonObject([k \in kept \cup {"status"} |->
                       IF k = "status" THEN status ELSE parsed.value[k]])

WithStatus(parsed, status) ==
    JsonObject([k \in DOMAIN parsed.value \cup {"status"} |->
                   IF k = "status" THEN status ELSE parsed.value[k]])

(***************************************************************************)
(* _parse_agent_result.  Only json.JSONDecodeError is caught: the          *)
(* TypeError and AttributeError of a JSON value that is no object leave    *)
(* the function.                                                           *)
(***************************************************************************)
InferStatus_EmptyFirst(parsed) ==
    IF ~Truthy(Get(parsed.value, "answer", <<>>))
       /\ ~Truthy(Get(parsed.value, "citations", <<>>))
    THEN "INSUFFICIENT_CONTEXT"
    ELSE IF In("error", parsed) \/ InStr("Error", parsed)
         THEN "ERROR"
         ELSE "OK"

InferStatus(parsed) ==
    IF In("error", parsed) \/ InStr("Error", parsed)
    THEN "ERROR"
    ELSE IF ~Truthy(Get(parsed.value, "answer", <<>>))
            /\ ~Truthy(Get(parsed.value, "citations", <<>>))
         THEN "INSUFFICIENT_CONTEXT"
         ELSE "OK"

ClassifyText(raw_lower) ==
    IF Contains(raw_lower, "error") \/ Contains(raw_lower, "failed")
    THEN "ERROR"
    ELSE "OK"

ParseText_CaseSensitive(text) ==
    IF ClassifyText(text) = "ERROR"
    THEN JsonObject([status |-> "ERROR", source_used |-> "UNKNOWN",
                     answer |-> text, error |-> text,
                     citations |-> <<>>, confidence |-> 0])
    ELSE JsonObject([status |-> "OK", source_used |-> "UNKNOWN",
                     answer |-> text, citations |-> <<>>,
                     confidence |-> TextDefaultConfidence])

ParseText(text) ==
    IF ClassifyText(LowerText(text)) = "ERROR"
    THEN JsonObject([status |-> "ERROR", source_used |-> "UNKNOWN",
                     answer |-> text, error |-> text,
                     citations |-> <<>>, confidence |-> 0])
    ELSE JsonObject([status |-> "OK", source_used |-> "UNKNOWN",
                     answer |-> text, citations |-> <<>>,
                     confidence |-> TextDefaultConfidence])

ParseAgentResult(raw) ==
    CASE raw.json = "invalid" -> Returned(ParseText(raw.value))
      [] raw.json \in {"number", "null"} -> Raised("TypeError")
      [] raw.json \in {"array", "string"} ->
            IF In("status", raw) THEN Returned(raw)
            ELSE IF In("error", raw) \/ InStr("Error", raw)
                 THEN Raised("TypeError")
                 ELSE Raised("AttributeError")
      [] raw.json = "object" ->
            IF In("status", raw) THEN Returned(raw)
            ELSE Returned(WithStatus(raw, InferStatus(raw)))

(***************************************************************************)
(* The arbiter of synthesize_final_response.                               *)
(***************************************************************************)
EntryStatus(source_data) == Get(source_data.value, "status", "")

EntryConfidence_WrongKey(source_data) == Get(source_data.value, "score", 0)

EntryConfidence(source_data) == Get(source_data.value, "confidence", 0)

AvailableSources_AnyStatus(ctx) ==
    SelectSeq(SourceNames, LAMBDA n : IsDict(ctx[KeyOf(n)]))

\* the names appended to available_sources, in the order of the scan
AvailableSources(ctx) ==
    SelectSeq(SourceNames,
              LAMBDA n : IsDict(ctx[KeyOf(n)])
                         /\ EntryStatus(ctx[KeyOf(n)]) = "OK")

SourceConfidences(ctx) ==
    [n \in Range(AvailableSources(ctx)) |-> EntryConfidence(ctx[KeyOf(n)])]

\* Python's max(seq, key=...): the first element whose key is maximal
RECURSIVE MaxFrom(_, _, _, _)
MaxFrom(seq, key, i, best) ==
    IF i > Len(seq) THEN best
    ELSE MaxFrom(seq, key, i + 1,
                 IF key[seq[i]] > key[best] THEN seq[i] ELSE best)

PyMax(seq, key) == MaxFrom(seq, key, 2, seq[1])

\* max(d.values()) of a non-empty dict
MaxValue(d) == CHOOSE v \in Range(d) : \A w \in Range(d) : w <= v

RelevanceKey_ScoresOnly(s, relevance_scores, source_confidences) ==
    Get(relevance_scores, s, 0)

RelevanceKey(s, relevance_scores, source_confidences) ==
    Get(relevance_scores, s, Get(source_confidences, s, 0))

SelectSourceUsed(relevant_sources, relevance_scores, ctx) ==
    LET available_sources == AvailableSources(ctx)
        source_confidences == SourceConfidences(ctx)
    IN  IF Truthy(relevant_sources) /\ DOMAIN relevance_scores # {}
        THEN PyMax(relevant_sources,
                   [s \in Range(relevant_sources) |->
                       RelevanceKey(s, relevance_scores, source_confidences)])
        ELSE IF Truthy(available_sources)
             THEN PyMax(available_sources, source_confidences)
             ELSE "NONE"

ResolveConfidence_OwnFirst(source_used, relevance_scores, source_confidences) ==
    IF source_used # "NONE"
    THEN IF source_used \in DOMAIN source_confidences
         THEN source_confidences[source_used]
         ELSE IF source_used \in DOMAIN relevance_scores
              THEN relevance_scores[source_used]
              ELSE IF DOMAIN relevance_scores # {}
                   THEN MaxValue(relevance_scores)
                   ELSE 0
    ELSE 0

ResolveConfidence(source_used, relevance_scores, source_confidences) ==
    IF source_used # "NONE"
    THEN IF source_used \in DOMAIN relevance_scores
         THEN relevance_scores[source_used]
         ELSE IF source_used \in DOMAIN source_confidences
              THEN source_confidences[source_used]
              ELSE IF DOMAIN relevance_scores # {}
                   THEN MaxValue(relevance_scores)
                   ELSE IF DOMAIN source_confidences # {}
                        THEN MaxValue(source_confidences)
                        ELSE 0
    ELSE 0

DeriveStatus_HighBarOnly(confidence, final_response) ==
    IF confidence > HighConfidence /\ Truthy(final_response)
    THEN "OK"
    ELSE "INSUFFICIENT_CONTEXT"

DeriveStatus(confidence, final_response) ==
    IF confidence > HighConfidence /\ Truthy(final_response)
    THEN "OK"
    ELSE IF confidence > 0
         THEN "OK"
         ELSE "INSUFFICIENT_CONTEXT"

SourceCitations_OkOnly(source_data) ==
    IF IsDict(source_data) /\ EntryStatus(source_data) = "OK"
    THEN Get(source_data.value, "citations", <<>>)
    ELSE <<>>

SourceCitations(source_data) ==
    IF IsDict(source_data)
    THEN Get(source_data.value, "citations", <<>>)
    ELSE <<>>

RECURSIVE ExtendFrom(_, _, _)
ExtendFrom(ctx, i, citations) ==
    IF i > Len(SourceKeys) THEN citations
    ELSE ExtendFrom(ctx, i + 1,
                    IF Truthy(SourceCitations(ctx[SourceKeys[i]]))
                    THEN citations \o SourceCitations(ctx[SourceKeys[i]])
                    ELSE citations)

ExtractCitations(ctx) == ExtendFrom(ctx, 1, <<>>)

Arbitrate(evaluation, ctx, final_response) ==
    LET relevant_sources == Get(evaluation, "relevant_sources", <<>>)
        relevance_scores == Get(evaluation, "relevance_scores", EmptyDict)
        source_used == SelectSourceUsed(relevant_sources, relevance_scores, ctx)
        confidence == ResolveConfidence(source_used, relevance_scores,
                                        SourceConfidences(ctx))
        status == DeriveStatus(confidence, final_response)
    IN  [status |-> status,
         source_used |-> source_used,
         answer |-> final_response,
         confidence |-> confidence,
         citations |-> ExtractCitations(ctx),
         missing |-> IF status = "OK" THEN <<>> ELSE <<"context">>]

(***************************************************************************)
(* _summarize_for_memory.  A text is a sequence of characters; indexes are *)
(* Python's, from 0, and rfind is -1 when the character is absent.  The    *)
(* code compares an index with the float max_length * 0.7 (or 0.8); the    *)
(* integer comparison below gives the same answer for every limit up to 80 *)
(* and for the two limits the flow uses, 1500 and 2000.                    *)
(***************************************************************************)
SentenceMarker ==
    <<" ", "[", "R", "e", "s", "p", "o", "n", "s", "e", " ",
      "t", "r", "u", "n", "c", "a", "t", "e", "d", " ",
      "f", "o", "r", " ", "m", "e", "m", "o", "r", "y", " ",
      "s", "t", "o", "r", "a", "g", "e", "]">>

CutMarker == <<".", ".", ".">> \o SentenceMarker

\* text[:n] for n >= 0
Slice(text, n) == SubSeq(text, 1, IF n < Len(text) THEN n ELSE Len(text))

\* text.rfind(ch)
RFind(text, ch) ==
    LET at == {i \in DOMAIN text : text[i] = ch}
    IN  IF at = {} THEN -1
        ELSE (CHOOSE i \in at : \A j \in at : j <= i) - 1

Max3(a, b, c) ==
    IF a >= b /\ a >= c THEN a ELSE IF b >= c THEN b ELSE c

SummarizeForMemory_SpaceFirst(response, max_length) ==
    IF Len(response) <= max_length
    THEN response
    ELSE LET truncated == Slice(response, max_length)
             last_period == RFind(truncated, ".")
             last_exclamation == RFind(truncated, "!")
             last_question == RFind(truncated, "?")
             last_sentence_end ==
                 Max3(last_period, last_exclamation, last_question)
             last_space == RFind(truncated, " ")
         IN  IF 10 * last_space > 8 * max_length
             THEN Slice(truncated, last_space) \o CutMarker
             ELSE IF 10 * last_sentence_end > 7 * max_length
                  THEN Slice(truncated, last_sentence_end + 1) \o SentenceMarker
                  ELSE truncated \o CutMarker

SummarizeForMemory_Uncut(response, max_length) ==
    IF Len(response) <= max_length
    THEN response
    ELSE LET truncated == Slice(response, max_length)
             last_period == RFind(truncated, ".")
             last_exclamation == RFind(truncated, "!")
             last_question == RFind(truncated, "?")
             last_sentence_end ==
                 Max3(last_period, last_exclamation, last_question)
             last_space == RFind(truncated, " ")
         IN  IF 10 * last_sentence_end > 7 * max_length
             THEN Slice(truncated, last_sentence_end + 1) \o SentenceMarker
             ELSE IF 10 * last_space > 8 * max_length
                  THEN Slice(truncated, last_space) \o CutMarker
                  ELSE response \o CutMarker

SummarizeForMemory(response, max_length) ==
    IF Len(response) <= max_length
    THEN response
    ELSE LET truncated == Slice(response, max_length)
             last_period == RFind(truncated, ".")
             last_exclamation == RFind(truncated, "!")
             last_question == RFind(truncated, "?")
             last_sentence_end ==
                 Max3(last_period, last_exclamation, last_question)
             last_space == RFind(truncated, " ")
         IN  IF 10 * last_sentence_end > 7 * max_length
             THEN Slice(truncated, last_sentence_end + 1) \o SentenceMarker
             ELSE IF 10 * last_space > 8 * max_length
                  THEN Slice(truncated, last_space) \o CutMarker
                  ELSE truncated \o CutMarker

\* the turns memory_layer stores
UserMessage(content) == [role |-> "user", content |-> content]

AssistantMessage(content) == [role |-> "assistant", content |-> content]

(***************************************************************************)
(* Inputs: what the crews can hand to the flow.                            *)
(***************************************************************************)
\* the questions asked in the model: a short text is below both limits.  The
\* flow of one query is followed for one question, since the text of the
\* question reaches nothing but the memory log.
Question == <<"status", "error">>

Queries == {<<"fine">>, Question}

SeqsUpTo(S, n) == UNION {[1..m -> S] : m \in 0..n}

CitationIds == {"c1", "c2"}

FullCitations == [i \in 1..MaxCitations |-> IF i % 2 = 1 THEN "c1" ELSE "c2"]

Optional(field, values) == {EmptyDict} \cup {field :> v : v \in values}

\* the JSON objects an agent can print
ObjectPayloads ==
    {JsonObject(st @@ an @@ ci @@ co @@ er @@ et @@ cx) :
        st \in Optional("status", {"OK", "INSUFFICIENT_CONTEXT", "ERROR"}),
        an \in Optional("answer", {<<>>, <<"fine">>, <<"error">>, <<"Error">>}),
        ci \in Optional("citations", SeqsUpTo(CitationIds, MaxCitations)),
        co \in Optional("confidence", {8000}),
        er \in Optional("error", {<<"failed">>}),
        et \in Optional("error_type", {<<"ValueError">>}),
        cx \in Optional("context", {"opaque"})}

\* JSON that is valid and no object
NonObjectPayloads ==
    {[json |-> j, value |-> v] :
        j \in {"array", "string"}, v \in SeqsUpTo(Words, MaxWords)}
    \cup {[json |-> j, value |-> <<>>] : j \in {"number", "null"}}

\* text that is not JSON
TextPayloads == {[json |-> "invalid", value |-> v] : v \in SeqsUpTo(Words, MaxWords)}

RawOutputs == ObjectPayloads \cup NonObjectPayloads \cup TextPayloads

\* outcomes of one context task
OkPayload ==
    JsonObject([status |-> "OK", source_used |-> "RAG", answer |-> <<"fine">>,
                citations |-> <<"c1">>, confidence |-> 8000])

LowPayload ==
    JsonObject([status |-> "OK", answer |-> <<"fine">>, confidence |-> 4000])

BarePayload == JsonObject([answer |-> <<"fine">>])

ErrorPayload ==
    JsonObject([status |-> "ERROR", answer |-> <<>>, error |-> <<"failed">>,
                citations |-> FullCitations, confidence |-> 3000])

InsufficientPayload ==
    JsonObject([status |-> "INSUFFICIENT_CONTEXT", answer |-> <<>>,
                citations |-> <<>>, confidence |-> 0])

TaskRaised == [kind |-> "raise"]

TaskRaw(raw) == [kind |-> "raw", raw |-> raw]

QuietOutcome == TaskRaw(InsufficientPayload)

TaskOutcomes ==
    {TaskRaised, QuietOutcome}
    \cup {TaskRaw(r) : r \in {OkPayload, LowPayload, BarePayload, ErrorPayload,
                              [json |-> "invalid", value |-> <<"FAILED">>],
                              [json |-> "array", value |-> <<"status">>],
                              [json |-> "number", value |-> <<>>]}}

\* the outputs of one kickoff: at most two tasks differ from the quiet outcome
KickoffOutputs ==
    {out \in [Range(SourceKeys) -> TaskOutcomes] :
        Cardinality({k \in Range(SourceKeys) : out[k] # QuietOutcome}) <= 2}

\* outputs of the evaluator that validate against ContextEvaluationResult
ScoreLevels == {0, 1, 9000}

EvalSupports == {S \in SUBSET Range(SourceNames) : Cardinality(S) <= 2}

StructuredEvaluations ==
    UNION {{[relevant_sources |-> r,
             filtered_context |-> [n \in Range(r) |-> "slice"],
             relevance_scores |-> sc,
             reasoning |-> "because"] :
               r \in SeqsUpTo(S, MaxRelevant),
               sc \in UNION {[D -> ScoreLevels] : D \in SUBSET S}} :
           S \in EvalSupports}

EvaluatorOutcomes ==
    {TaskRaised}
    \cup {[kind |-> "pydantic", output |-> e] : e \in StructuredEvaluations}
    \cup {TaskRaw(r) : r \in {[json |-> "invalid", value |-> <<"fine">>],
                              [json |-> "number", value |-> <<>>]}}

SynthesisOutcomes == {TaskRaised, TaskRaw(<<>>), TaskRaw(<<"fine">>)}

(***************************************************************************)
(* The flow.                                                               *)
(***************************************************************************)
Init ==
    /\ pc = "ready"
    /\ tasks_output = None
    /\ context_sources = None
    /\ evaluation_result = None
    /\ filtered_context = None
    /\ result = None
    /\ memory = <<>>
    /\ raw_result = None
    /\ parsed_result = None
    /\ query = Question
    /\ evaluation_output = None
    /\ task_state = None
    /\ in_flight = None
    /\ summarize_args = None
    /\ summarized_response = None
    /\ server = None
    /\ vector_db = None
    /\ response_data = None

process_query_Unsaved ==
    /\ pc = "ready"
    /\ pc' = "processing"
    /\ UNCHANGED <<tasks_output, context_sources, evaluation_result,
                   filtered_context, result, memory, raw_result,
                   parsed_result, query, evaluation_output, crew_vars,
                   thread_vars, condense_vars, module_vars>>

process_query ==
    /\ pc = "ready"
    /\ memory' = Append(memory, UserMessage(
                     SummarizeForMemory(query, QueryMaxLength)))
    /\ pc' = "processing"
    /\ UNCHANGED <<tasks_output, context_sources, evaluation_result,
                   filtered_context, result, raw_result, parsed_result,
                   query, evaluation_output, crew_vars, thread_vars,
                   condense_vars, module_vars>>

\* kickoff() has no handler around it: a task that raises ends the stage (the
\* outcomes drawn for the tasks after it are never read), and so does a raw
\* output whose parse raises
gather_context_from_all_sources ==
    /\ pc = "processing"
    /\ \E out \in KickoffOutputs :
          /\ tasks_output' = out
          /\ IF \E k \in Range(SourceKeys) : out[k] = TaskRaised
             THEN /\ pc' = "error"
                  /\ context_sources' = None
             ELSE LET parsed == [k \in Range(SourceKeys) |->
                                    ParseAgentResult(out[k].raw)]
                  IN  IF \E k \in Range(SourceKeys) : parsed[k].raised # ""
                      THEN /\ pc' = "error"
                           /\ context_sources' = None
                      ELSE /\ pc' = "gathered"
                           /\ context_sources' =
                                 [k \in Range(SourceKeys) |-> parsed[k].value]
    /\ UNCHANGED <<evaluation_result, filtered_context, result, memory,
                   raw_result, parsed_result, query, evaluation_output,
                   crew_vars, thread_vars, condense_vars, module_vars>>

evaluate_context_relevance ==
    /\ pc = "gathered"
    /\ \E ev \in EvaluatorOutcomes :
          /\ evaluation_output' = ev
          /\ CASE ev.kind = "raise" ->
                     /\ pc' = "error"
                     /\ UNCHANGED <<evaluation_result, filtered_context>>
               [] ev.kind = "pydantic" ->
                     /\ pc' = "evaluated"
                     /\ filtered_context' = ev.output.filtered_context
                     /\ evaluation_result' = ev.output
               [] ev.kind = "raw" ->
                     LET parsed == ParseAgentResult(ev.raw)
                     IN  IF parsed.raised # ""
                         THEN /\ pc' = "error"
                              /\ UNCHANGED <<evaluation_result, filtered_context>>
                         ELSE /\ pc' = "evaluated"
                              /\ filtered_context' = parsed.value
                              /\ evaluation_result' = [raw_fallback |-> ev.raw]
    /\ UNCHANGED <<tasks_output, context_sources, result, memory,
                   raw_result, parsed_result, query, crew_vars, thread_vars,
                   condense_vars, module_vars>>

synthesize_final_response_AfterGather ==
    /\ pc \in {"gathered", "evaluated"}
    /\ \E syn \in SynthesisOutcomes :
          IF syn = TaskRaised
          THEN /\ pc' = "error"
               /\ UNCHANGED <<result, memory>>
          ELSE /\ pc' = "completed"
               /\ memory' = Append(memory, AssistantMessage(
                                SummarizeForMemory(syn.raw, DefaultMaxLength)))
               /\ result' = Arbitrate(evaluation_result, context_sources, syn.raw)
    /\ UNCHANGED <<tasks_output, context_sources, evaluation_result,
                   filtered_context, raw_result, parsed_result, query,
                   evaluation_output, crew_vars, thread_vars, condense_vars, module_vars>>

synthesize_final_response ==
    /\ pc = "evaluated"
    /\ \E syn \in SynthesisOutcomes :
          IF syn = TaskRaised
          THEN /\ pc' = "error"
               /\ UNCHANGED <<result, memory>>
          ELSE /\ pc' = "completed"
               /\ memory' = Append(memory, AssistantMessage(
                                SummarizeForMemory(syn.raw, DefaultMaxLength)))
               /\ result' = Arbitrate(evaluation_result, context_sources, syn.raw)
    /\ UNCHANGED <<tasks_output, context_sources, evaluation_result,
                   filtered_context, raw_result, parsed_result, query,
                   evaluation_output, crew_vars, thread_vars, condense_vars, module_vars>>

Next ==
    \/ process_query
    \/ gather_context_from_all_sources
    \/ evaluate_context_relevance
    \/ synthesize_final_response

Spec == Init /\ [][Next]_vars

(***************************************************************************)
(* One call of _parse_agent_result on any raw output.                      *)
(***************************************************************************)
InitParse ==
    /\ pc = "parse"
    /\ tasks_output = None
    /\ context_sources = None
    /\ evaluation_result = None
    /\ filtered_context = None
    /\ result = None
    /\ memory = <<>>
    /\ raw_result \in RawOutputs
    /\ parsed_result = None
    /\ query = None
    /\ evaluation_output = None
    /\ task_state = None
    /\ in_flight = None
    /\ summarize_args = None
    /\ summarized_response = None
    /\ server = None
    /\ vector_db = None
    /\ response_data = None

parse_agent_result ==
    /\ pc = "parse"
    /\ parsed_result' = ParseAgentResult(raw_result)
    /\ pc' = "parsed"
    /\ UNCHANGED <<tasks_output, context_sources, evaluation_result,
                   filtered_context, result, memory, raw_result, query,
                   evaluation_output, crew_vars, thread_vars, condense_vars, module_vars>>

SpecParse == InitParse /\ [][parse_agent_result]_vars

(***************************************************************************)
(* One call of _summarize_for_memory on any text and limit.                *)
(***************************************************************************)
\* two sentence ends, the space, and the line break, which the code treats
\* like a letter
Chars == {".", "?", " ", "\n"}

TextsUpTo(n) == UNION {[1..m -> Chars] : m \in 0..n}

\* the calls of the model: the code reads len(response) and the first
\* max_length characters, so one character beyond the limit stands for any
\* longer tail
SummarizeCalls ==
    UNION {[response : TextsUpTo(n + 1), max_length : {n}] : n \in 0..MaxLength}

InitCondense ==
    /\ pc = "condense"
    /\ tasks_output = None
    /\ context_sources = None
    /\ evaluation_result = None
    /\ filtered_context = None
    /\ result = None
    /\ memory = <<>>
    /\ raw_result = None
    /\ parsed_result = None
    /\ query = None
    /\ evaluation_output = None
    /\ task_state = None
    /\ in_flight = None
    /\ summarize_args \in SummarizeCalls
    /\ summarized_response = None
    /\ server = None
    /\ vector_db = None
    /\ response_data = None

summarize_for_memory ==
    /\ pc = "condense"
    /\ summarized_response' = SummarizeForMemory(summarize_args.response,
                                                 summarize_args.max_length)
    /\ pc' = "condensed"
    /\ UNCHANGED <<tasks_output, context_sources, evaluation_result,
                   filtered_context, result, memory, raw_result,
                   parsed_result, query, evaluation_output, crew_vars,
                   thread_vars, summarize_args, module_vars>>

SpecCondense == InitCondense /\ [][summarize_for_memory]_vars

(***************************************************************************)
(* Inside context_crew.kickoff().  The crew is built from a list of four   *)
(* tasks and no process argument, and kickoff() is one blocking call with  *)
(* no timeout: the tasks run in list order, one at a time, a task that     *)
(* raises ends the kickoff, and the results are read after it returns.  An *)
(* adapter whose remote call never answers leaves its task running.        *)
(***************************************************************************)
Pending == [state |-> "pending"]

Running == [state |-> "running"]

Hung == [state |-> "hung"]

Done(output) == [state |-> "done", output |-> output]

CrewOutcomes ==
    {TaskRaised, QuietOutcome}
    \cup {TaskRaw(r) : r \in {OkPayload, ErrorPayload,
                              [json |-> "number", value |-> <<>>]}}

\* the tasks listed before the task of key k
TasksBefore(k) ==
    {SourceKeys[j] : j \in {i \in 1..4 : \E n \in (i + 1)..4 : SourceKeys[n] = k}}

InitCrew ==
    /\ pc = "processing"
    /\ tasks_output = None
    /\ context_sources = None
    /\ evaluation_result = None
    /\ filtered_context = None
    /\ result = None
    /\ query \in Queries
    /\ memory = <<UserMessage(SummarizeForMemory(query, QueryMaxLength))>>
    /\ raw_result = None
    /\ parsed_result = None
    /\ evaluation_output = None
    /\ task_state = [k \in Range(SourceKeys) |-> Pending]
    /\ in_flight = None
    /\ summarize_args = None
    /\ summarized_response = None
    /\ server = None
    /\ vector_db = None
    /\ response_data = None

start_task(k) ==
    /\ pc = "processing"
    /\ task_state[k] = Pending
    /\ \A j \in TasksBefore(k) : task_state[j].state = "done"
    /\ task_state' = [task_state EXCEPT ![k] = Running]
    /\ UNCHANGED <<pc, tasks_output, context_sources, evaluation_result,
                   filtered_context, result, memory, raw_result,
                   parsed_result, query, evaluation_output, thread_vars,
                   condense_vars, module_vars>>

finish_task(k) ==
    /\ pc = "processing"
    /\ task_state[k] = Running
    /\ \E out \in CrewOutcomes :
          /\ task_state' = [task_state EXCEPT ![k] = Done(out)]
          /\ pc' = IF out = TaskRaised THEN "error" ELSE pc
    /\ UNCHANGED <<tasks_output, context_sources, evaluation_result,
                   filtered_context, result, memory, raw_result,
                   parsed_result, query, evaluation_output, thread_vars,
                   condense_vars, module_vars>>

\* the adapter's call never answers
hang_task(k) ==
    /\ pc = "processing"
    /\ task_state[k] = Running
    /\ task_state' = [task_state EXCEPT ![k] = Hung]
    /\ UNCHANGED <<pc, tasks_output, context_sources, evaluation_result,
                   filtered_context, result, memory, raw_result,
                   parsed_result, query, evaluation_output, thread_vars,
                   condense_vars, module_vars>>

\* kickoff() returns and the stage normalises the four raw outputs
kickoff_returns ==
    /\ pc = "processing"
    /\ \A k \in Range(SourceKeys) : task_state[k].state = "done"
    /\ tasks_output' = [k \in Range(SourceKeys) |-> task_state[k].output]
    /\ LET parsed == [k \in Range(SourceKeys) |->
                         ParseAgentResult(task_state[k].output.raw)]
       IN  IF \E k \in Range(SourceKeys) : parsed[k].raised # ""
           THEN /\ pc' = "error"
                /\ context_sources' = None
           ELSE /\ pc' = "gathered"
                /\ context_sources' =
                      [k \in Range(SourceKeys) |-> parsed[k].value]
    /\ UNCHANGED <<evaluation_result, filtered_context, result, memory,
                   raw_result, parsed_result, query, evaluation_output,
                   crew_vars, thread_vars, condense_vars, module_vars>>

NextCrew ==
    \/ \E k \in Range(SourceKeys) : start_task(k)
    \/ \E k \in Range(SourceKeys) : finish_task(k)
    \/ \E k \in Range(SourceKeys) : hang_task(k)
    \/ kickoff_returns

SpecCrew == InitCrew /\ [][NextCrew]_vars

\* the thread that runs kickoff() keeps running: a task that can start
\* starts, a task whose adapter answers finishes, a finished crew returns
FairSpecCrew ==
    /\ SpecCrew
    /\ \A k \in Range(SourceKeys) : WF_vars(start_task(k))
    /\ \A k \in Range(SourceKeys) : WF_vars(finish_task(k))
    /\ WF_vars(kickoff_returns)

(***************************************************************************)
(* Two requests on the same conversation thread.  query() hands each       *)
(* kickoff to the default thread pool, takes no lock, and every request    *)
(* uses the one assistant and its one memory_layer; the threads interleave *)
(* between the stages.  Only what the stages write to memory is kept here. *)
(***************************************************************************)
Requests == {1, 2}

StageOutcomes == {"returned", "raised"}

InitThreads ==
    /\ pc = "serving"
    /\ tasks_output = None
    /\ context_sources = None
    /\ evaluation_result = None
    /\ filtered_context = None
    /\ result = None
    /\ memory = <<>>
    /\ raw_result = None
    /\ parsed_result = None
    /\ query = None
    /\ evaluation_output = None
    /\ task_state = None
    /\ in_flight \in [Requests -> {[stage |-> "ready", query |-> q,
                                     final_response |-> None] : q \in Queries}]
    /\ summarize_args = None
    /\ summarized_response = None
    /\ server = None
    /\ vector_db = None
    /\ response_data = None

thread_process_query(r) ==
    /\ in_flight[r].stage = "ready"
    /\ memory' = Append(memory, UserMessage(
                     SummarizeForMemory(in_flight[r].query, QueryMaxLength)))
    /\ in_flight' = [in_flight EXCEPT ![r].stage = "processing"]
    /\ UNCHANGED <<pc, tasks_output, context_sources, evaluation_result,
                   filtered_context, result, raw_result, parsed_result, query,
                   evaluation_output, crew_vars, condense_vars, module_vars>>

thread_gather_context(r) ==
    /\ in_flight[r].stage = "processing"
    /\ \E outcome \in StageOutcomes :
          in_flight' = [in_flight EXCEPT ![r].stage =
                           IF outcome = "raised" THEN "error" ELSE "gathered"]
    /\ UNCHANGED <<pc, tasks_output, context_sources, evaluation_result,
                   filtered_context, result, memory, raw_result,
                   parsed_result, query, evaluation_output, crew_vars,
                   condense_vars, module_vars>>

thread_evaluate_context(r) ==
    /\ in_flight[r].stage = "gathered"
    /\ \E outcome \in StageOutcomes :
          in_flight' = [in_flight EXCEPT ![r].stage =
                           IF outcome = "raised" THEN "error" ELSE "evaluated"]
    /\ UNCHANGED <<pc, tasks_output, context_sources, evaluation_result,
                   filtered_context, result, memory, raw_result,
                   parsed_result, query, evaluation_output, crew_vars,
                   condense_vars, module_vars>>

thread_synthesize(r) ==
    /\ in_flight[r].stage = "evaluated"
    /\ \E syn \in SynthesisOutcomes :
          IF syn = TaskRaised
          THEN /\ in_flight' = [in_flight EXCEPT ![r].stage = "error"]
               /\ UNCHANGED memory
          ELSE /\ memory' = Append(memory, AssistantMessage(
                                SummarizeForMemory(syn.raw, DefaultMaxLength)))
               /\ in_flight' = [in_flight EXCEPT
                                   ![r].stage = "completed",
                                   ![r].final_response = syn.raw]
    /\ UNCHANGED <<pc, tasks_output, context_sources, evaluation_result,
                   filtered_context, result, raw_result, parsed_result, query,
                   evaluation_output, crew_vars, condense_vars, module_vars>>

NextThreads ==
    \/ \E r \in Requests : thread_process_query(r)
    \/ \E r \in Requests : thread_gather_context(r)
    \/ \E r \in Requests : thread_evaluate_context(r)
    \/ \E r \in Requests : thread_synthesize(r)

SpecThreads == InitThreads /\ [][NextThreads]_vars

(***************************************************************************)
(* api_server.py: the module globals and the endpoints initialize, status, *)
(* upload-document and query, one request after another.  A handler runs   *)
(* on the event loop; the environment decides whether the construction of  *)
(* the assistant, the write of the upload, process_documents and the       *)
(* kickoff succeed.  server.assistant is 0 for None and otherwise the      *)
(* number of the ResearchAssistantFlow instance.                           *)
(***************************************************************************)
DefaultThread == "default_thread"

WebSession == "web_session_pid"

\* thread_id of a QueryRequest; "" stands for a missing or empty one
RequestThreads == {"", "t1", "t2"}

\* how process_documents ends: it returns, or raises with a message that
\* holds one of the words the handler looks for, or with another message
ProcessOutcomes == {"returned", "TensorLake", "Embedding", "API", "other"}

NoResponse == [endpoint |-> "none"]

InitApi ==
    /\ pc = "serving"
    /\ tasks_output = None
    /\ context_sources = None
    /\ evaluation_result = None
    /\ filtered_context = None
    /\ result = None
    /\ memory = <<>>
    /\ raw_result = None
    /\ parsed_result = None
    /\ query = None
    /\ evaluation_output = None
    /\ task_state = None
    /\ in_flight = None
    /\ summarize_args = None
    /\ summarized_response = None
    /\ server = [assistant |-> 0,
                 instances |-> 0,
                 layer_thread |-> None,
                 qdrant_initialized |-> FALSE,
                 document_processed |-> FALSE,
                 current_document |-> None,
                 temp_files |-> {},
                 uploads |-> 0,
                 kickoffs |-> 0,
                 handled |-> 0,
                 last |-> NoResponse]
    /\ vector_db = None
    /\ response_data = None

\* get_assistant(): the globals after the call and whether it raised; the
\* memory layer of a new assistant is built with the default thread_id of
\* ResearchAssistantState
GetAssistant_Rebuilt(srv, constructs) ==
    IF constructs
    THEN [raised |-> FALSE,
          server |-> [srv EXCEPT !.assistant = srv.instances + 1,
                                 !.instances = srv.instances + 1,
                                 !.layer_thread = DefaultThread,
                                 !.qdrant_initialized = TRUE]]
    ELSE [raised |-> TRUE, server |-> srv]

GetAssistant(srv, constructs) ==
    IF srv.assistant = 0 \/ ~srv.qdrant_initialized
    THEN IF constructs
         THEN [raised |-> FALSE,
               server |-> [srv EXCEPT !.assistant = srv.instances + 1,
                                      !.instances = srv.instances + 1,
                                      !.layer_thread = DefaultThread,
                                      !.qdrant_initialized = TRUE]]
         ELSE [raised |-> TRUE, server |-> srv]
    ELSE [raised |-> FALSE, server |-> srv]

\* the handler returns or raises: the response the client gets
Responds(srv, response) ==
    [srv EXCEPT !.handled = srv.handled + 1, !.last = response]

initialize_assistant ==
    /\ pc = "serving"
    /\ server.handled < MaxRequests
    /\ \E constructs \in BOOLEAN :
          LET got == GetAssistant(server, constructs)
          IN  server' = Responds(got.server,
                  IF got.raised
                  THEN [endpoint |-> "initialize", code |-> 500]
                  ELSE [endpoint |-> "initialize", code |-> 200,
                        assistant |-> got.server.assistant])
    /\ UNCHANGED <<pc, tasks_output, context_sources, evaluation_result,
                   filtered_context, result, memory, raw_result,
                   parsed_result, query, evaluation_output, crew_vars,
                   thread_vars, condense_vars, vector_db, response_data>>

get_status ==
    /\ pc = "serving"
    /\ server.handled < MaxRequests
    /\ server' = Responds(server,
          [endpoint |-> "status", code |-> 200,
           initialized |-> server.assistant # 0 /\ server.qdrant_initialized,
           document_processed |-> server.document_processed])
    /\ UNCHANGED <<pc, tasks_output, context_sources, evaluation_result,
                   filtered_context, result, memory, raw_result,
                   parsed_result, query, evaluation_output, crew_vars,
                   thread_vars, condense_vars, vector_db, response_data>>

ContentTypes == {"application/pdf", "text/plain"}

\* os.unlink of the upload's temporary file
Unlinked(srv, file) == [srv EXCEPT !.temp_files = srv.temp_files \ {file}]

\* the detail of the HTTPException for the message of the exception
FailureDetail(outcome) ==
    CASE outcome = "TensorLake" -> "Document parsing failed"
      [] outcome = "Embedding" -> "Embedding generation failed"
      [] outcome = "API" -> "API authentication failed"
      [] OTHER -> "Document processing failed"

upload_document ==
    /\ pc = "serving"
    /\ server.handled < MaxRequests
    /\ \E content_type \in ContentTypes, written \in BOOLEAN,
          constructs \in BOOLEAN, outcome \in ProcessOutcomes :
          LET file == server.uploads + 1
              created == [server EXCEPT !.uploads = file,
                                        !.temp_files = server.temp_files \cup {file}]
              got == GetAssistant(created, constructs)
          IN  server' =
                IF content_type # "application/pdf"
                THEN Responds(server, [endpoint |-> "upload", code |-> 400,
                                       detail |-> "Only PDF files are supported",
                                       file |-> 0])
                ELSE IF ~written
                \* the write raises inside the with block: tmp_file_path
                \* is not bound, so the handler has no name to unlink
                THEN Responds(created, [endpoint |-> "upload", code |-> 500,
                                        detail |-> "Document processing failed",
                                        file |-> file])
                ELSE IF got.raised
                \* get_assistant raises HTTPException, which is re-raised
                THEN Responds(got.server,
                              [endpoint |-> "upload", code |-> 500,
                               detail |-> "Failed to initialize Research Assistant",
                               file |-> file])
                ELSE IF outcome = "returned"
                THEN Responds([Unlinked(got.server, file) EXCEPT
                                  !.document_processed = TRUE,
                                  !.current_document = "paper.pdf"],
                              [endpoint |-> "upload", code |-> 200,
                               detail |-> "processed successfully",
                               file |-> file])
                ELSE Responds(Unlinked(got.server, file),
                              [endpoint |-> "upload",
                               code |-> IF outcome = "API" THEN 401 ELSE 500,
                               detail |-> FailureDetail(outcome),
                               file |-> file])
    /\ UNCHANGED <<pc, tasks_output, context_sources, evaluation_result,
                   filtered_context, result, memory, raw_result,
                   parsed_result, query, evaluation_output, crew_vars,
                   thread_vars, condense_vars, vector_db, response_data>>

\* memory_layer.save_user_message / save_assistant_message: the layer has no
\* thread argument and writes to the thread it was constructed for
SaveMessage(log, layer_thread, message) ==
    Append(log, [thread |-> layer_thread, role |-> message.role,
                 content |-> message.content])

\* the thread_id that query() passes to kickoff(inputs=...)
InputThread(thread_id) == IF thread_id = "" THEN WebSession ELSE thread_id

post_query_Ungated ==
    /\ pc = "serving"
    /\ server.handled < MaxRequests
    /\ \E thread_id \in RequestThreads, constructs \in BOOLEAN,
          kickoff \in StageOutcomes :
          LET got == GetAssistant(server, constructs)
              saved == SaveMessage(memory, got.server.layer_thread,
                          UserMessage(SummarizeForMemory(Question,
                                                         QueryMaxLength)))
          IN  IF got.raised
              THEN /\ server' = Responds(got.server,
                          [endpoint |-> "query", code |-> 500])
                   /\ UNCHANGED memory
              ELSE IF kickoff = "raised"
              THEN /\ server' = Responds(
                          [got.server EXCEPT !.kickoffs = @ + 1],
                          [endpoint |-> "query", code |-> 500,
                           thread |-> InputThread(thread_id)])
                   /\ memory' = saved
              ELSE /\ server' = Responds(
                          [got.server EXCEPT !.kickoffs = @ + 1],
                          [endpoint |-> "query", code |-> 200,
                           thread |-> InputThread(thread_id)])
                   /\ memory' = SaveMessage(saved, got.server.layer_thread,
                          AssistantMessage(SummarizeForMemory(<<"fine">>,
                                                              DefaultMaxLength)))
    /\ UNCHANGED <<pc, tasks_output, context_sources, evaluation_result,
                   filtered_context, result, raw_result, parsed_result, query,
                   evaluation_output, crew_vars, thread_vars, condense_vars,
                   vector_db, response_data>>

post_query ==
    /\ pc = "serving"
    /\ server.handled < MaxRequests
    /\ \E thread_id \in RequestThreads, constructs \in BOOLEAN,
          kickoff \in StageOutcomes :
          LET got == GetAssistant(server, constructs)
              saved == SaveMessage(memory, got.server.layer_thread,
                          UserMessage(SummarizeForMemory(Question,
                                                         QueryMaxLength)))
          IN  IF ~server.document_processed
              THEN /\ server' = Responds(server,
                          [endpoint |-> "query", code |-> 400])
                   /\ UNCHANGED memory
              ELSE IF got.raised
              THEN /\ server' = Responds(got.server,
                          [endpoint |-> "query", code |-> 500])
                   /\ UNCHANGED memory
              ELSE IF kickoff = "raised"
              THEN /\ server' = Responds(
                          [got.server EXCEPT !.kickoffs = @ + 1],
                          [endpoint |-> "query", code |-> 500,
                           thread |-> InputThread(thread_id)])
                   /\ memory' = saved
              ELSE /\ server' = Responds(
                          [got.server EXCEPT !.kickoffs = @ + 1],
                          [endpoint |-> "query", code |-> 200,
                           thread |-> InputThread(thread_id)])
                   /\ memory' = SaveMessage(saved, got.server.layer_thread,
                          AssistantMessage(SummarizeForMemory(<<"fine">>,
                                                              DefaultMaxLength)))
    /\ UNCHANGED <<pc, tasks_output, context_sources, evaluation_result,
                   filtered_context, result, raw_result, parsed_result, query,
                   evaluation_output, crew_vars, thread_vars, condense_vars,
                   vector_db, response_data>>

NextApi ==
    \/ initialize_assistant
    \/ get_status
    \/ upload_document
    \/ post_query

SpecApi == InitApi /\ [][NextApi]_vars

(***************************************************************************)
(* query() of api_server.py after the gate: the flow of one kickoff, stage *)
(* by stage, and then the response the endpoint builds from its result.    *)
(***************************************************************************)
\* the sources the fallback of query() can take its values from, in the
\* order of its scan: a dict with status OK and a confidence above 0
UsableSources(ctx) ==
    SelectSeq(SourceNames,
              LAMBDA n : /\ IsDict(ctx[KeyOf(n)])
                         /\ EntryStatus(ctx[KeyOf(n)]) = "OK"
                         /\ EntryConfidence(ctx[KeyOf(n)]) > 0)

\* response_data of query(): source_used and confidence of the flow's result,
\* each replaced by that of the first usable source when it is NONE or 0.0;
\* the status is the one of the flow's result
ResponseData(res, ctx) ==
    LET usable == UsableSources(ctx)
        found == /\ (res.source_used = "NONE" \/ res.confidence = 0)
                 /\ usable # <<>>
    IN  [status |-> res.status,
         source_used |-> IF found /\ res.source_used = "NONE"
                         THEN usable[1] ELSE res.source_used,
         answer |-> res.answer,
         citations |-> res.citations,
         confidence |-> IF found /\ res.confidence = 0
                        THEN EntryConfidence(ctx[KeyOf(usable[1])])
                        ELSE res.confidence,
         missing |-> res.missing]

\* kickoff has returned the result of the last stage, or a stage raised
query_response ==
    /\ pc \in {"completed", "error"}
    /\ pc' = "responded"
    /\ response_data' =
          IF pc = "completed"
          THEN [status_code |-> 200,
                data |-> ResponseData(result, context_sources)]
          ELSE [status_code |-> 500, data |-> None]
    /\ UNCHANGED <<tasks_output, context_sources, evaluation_result,
                   filtered_context, result, memory, raw_result,
                   parsed_result, query, evaluation_output, crew_vars,
                   thread_vars, condense_vars, server, vector_db>>

NextQuery ==
    \/ process_query
    \/ gather_context_from_all_sources
    \/ evaluate_context_relevance
    \/ synthesize_final_response
    \/ query_response

SpecQuery == Init /\ [][NextQuery]_vars

(***************************************************************************)
(* QdrantVectorDB of rag/retriever.py: the module's client cache, the      *)
(* embedded clients that were opened, the instances that were constructed  *)
(* and the points of the collection of each client.  A client is the index *)
(* of the storage path it was opened on in `opened`; the collection of a   *)
(* client is the sequence whose element id + 1 is the number of the insert *)
(* that stored the point id.  The two copies of the file differ only in    *)
(* the default path.                                                       *)
(***************************************************************************)
\* db_path arguments: none, a relative spelling of the default directory,
\* another directory
DbPaths == {"", "./qdrant_db", "papers_db"}

\* os.path.normpath(os.path.abspath(db_path)), and the default directory
\* when db_path is empty
CacheKey(db_path) ==
    IF db_path \in {"", "./qdrant_db"}
    THEN "/backend/qdrant_db"
    ELSE "/backend/papers_db"

StoragePaths == {CacheKey(p) : p \in DbPaths}

\* QdrantClient(path=...) returns a client, raises the RuntimeError of a
\* locked storage, or raises another RuntimeError
OpenOutcomes == {"opened", "locked", "failed"}

InitVectorDb ==
    /\ pc = "vector_db"
    /\ tasks_output = None
    /\ context_sources = None
    /\ evaluation_result = None
    /\ filtered_context = None
    /\ result = None
    /\ memory = <<>>
    /\ raw_result = None
    /\ parsed_result = None
    /\ query = None
    /\ evaluation_output = None
    /\ task_state = None
    /\ in_flight = None
    /\ summarize_args = None
    /\ summarized_response = None
    /\ server = None
    /\ vector_db = [CLIENT_CACHE |-> [p \in StoragePaths |-> 0],
                    opened |-> <<>>,
                    points |-> <<>>,
                    instances |-> <<>>,
                    constructions |-> 0,
                    calls |-> 0,
                    inserts |-> <<>>]
    /\ response_data = None

\* the cache and the clients after the with _CACHE_LOCK block of __init__,
\* and the client of the instance (0 when the block raised)
CachedClient(db, cache_key, open) ==
    IF db.CLIENT_CACHE[cache_key] # 0
    THEN [db |-> db, client |-> db.CLIENT_CACHE[cache_key]]
    ELSE IF open = "opened"
    THEN LET client == Len(db.opened) + 1
         IN  [db |-> [db EXCEPT !.opened = Append(@, cache_key),
                                !.points = Append(@, <<>>),
                                !.CLIENT_CACHE[cache_key] = client],
              client |-> client]
    ELSE IF open = "locked" /\ \E p \in StoragePaths : db.CLIENT_CACHE[p] # 0
    \* next(iter(_CLIENT_CACHE.items())): the entry that was added first,
    \* which holds the client that was opened first
    THEN [db |-> [db EXCEPT !.CLIENT_CACHE[cache_key] = 1], client |-> 1]
    ELSE [db |-> db, client |-> 0]

\* QdrantVectorDB(db_path): _ensure_collection raises when the collection
\* can be neither listed, created nor read
QdrantVectorDB ==
    /\ pc = "vector_db"
    /\ vector_db.constructions < MaxInstances
    /\ \E db_path \in DbPaths, open \in OpenOutcomes, ensured \in BOOLEAN :
          LET got == CachedClient(vector_db, CacheKey(db_path), open)
              counted == [got.db EXCEPT !.constructions = @ + 1]
          IN  vector_db' =
                IF got.client = 0 \/ ~ensured
                THEN counted
                ELSE [counted EXCEPT !.instances =
                         Append(@, [db_path |-> CacheKey(db_path),
                                    client |-> got.client])]
    /\ UNCHANGED <<pc, tasks_output, context_sources, evaluation_result,
                   filtered_context, result, memory, raw_result,
                   parsed_result, query, evaluation_output, crew_vars,
                   thread_vars, condense_vars, server, response_data>>

\* client.upsert: the points start_id .. start_id + n - 1 are written, over
\* the points that have these ids already
Upsert(collection, start_id, n, insert) ==
    LET last == IF start_id + n > Len(collection)
                THEN start_id + n ELSE Len(collection)
    IN  [i \in 1..last |->
            IF start_id < i /\ i <= start_id + n
            THEN insert ELSE collection[i]]

\* insert(chunks, embeddings, metadata) with n chunks on an instance:
\* get_collection returns the collection or raises, upsert stores the
\* points or raises
insert ==
    /\ pc = "vector_db"
    /\ vector_db.calls < MaxInserts
    /\ \E self \in DOMAIN vector_db.instances, n \in 1..MaxChunks,
          counted \in BOOLEAN, upserted \in BOOLEAN :
          LET client == vector_db.instances[self].client
              collection == vector_db.points[client]
              points_count == Len(collection)
              start_id == IF counted THEN points_count ELSE 0
              call == vector_db.calls + 1
          IN  vector_db' =
                IF upserted
                THEN [vector_db EXCEPT
                        !.calls = call,
                        !.points[client] =
                            Upsert(collection, start_id, n, call),
                        !.inserts = Append(@, [call |-> call,
                                               client |-> client,
                                               points_count |-> points_count,
                                               start_id |-> start_id,
                                               n |-> n])]
                ELSE [vector_db EXCEPT !.calls = call]
    /\ UNCHANGED <<pc, tasks_output, context_sources, evaluation_result,
                   filtered_context, result, memory, raw_result,
                   parsed_result, query, evaluation_output, crew_vars,
                   thread_vars, condense_vars, server, response_data>>

NextVectorDb ==
    \/ QdrantVectorDB
    \/ insert

SpecVectorDb == InitVectorDb /\ [][NextVectorDb]_vars

(***************************************************************************)
(* Claims.                                                                 *)
(***************************************************************************)
Aggregated == tasks_output # None

Crashed(k) == tasks_output[k] = TaskRaised

\* every task that did not raise printed something the normaliser accepts
OthersParse ==
    \A k \in Range(SourceKeys) :
        ~Crashed(k) => ParseAgentResult(tasks_output[k].raw).raised = ""

\* C1: once the aggregation stage has run, whatever the adapters did, the
\* context map has exactly the keys rag_result, memory_result, web_result and
\* tool_result, and the entry of an adapter that crashed has status ERROR and
\* an empty answer.
C1_FourKeysAfterAggregation ==
    (Aggregated /\ OthersParse) =>
        /\ context_sources # None
        /\ DOMAIN context_sources = Range(SourceKeys)
        /\ \A k \in Range(SourceKeys) :
              Crashed(k) =>
                 /\ IsDict(context_sources[k])
                 /\ EntryStatus(context_sources[k]) = "ERROR"
                 /\ Get(context_sources[k].value, "answer", <<>>) = <<>>

\* C2: an adapter that raises does not stop the aggregation stage: the stage
\* returns a context map in which that adapter's entry has status ERROR and
\* the other three entries are what their own outputs normalise to.
C2_AdapterFailureIsolated ==
    \A k \in Range(SourceKeys) :
        (Aggregated /\ Crashed(k) /\ OthersParse) =>
            /\ context_sources # None
            /\ EntryStatus(context_sources[k]) = "ERROR"
            /\ \A j \in Range(SourceKeys) \ {k} :
                  ~Crashed(j) =>
                     context_sources[j] = ParseAgentResult(tasks_output[j].raw).value

Completed == pc = "completed"

Relevant == Get(evaluation_result, "relevant_sources", <<>>)

Scores == Get(evaluation_result, "relevance_scores", EmptyDict)

\* the context entry of a display name is an object with status OK
EntryOK(name) ==
    /\ IsDict(context_sources[KeyOf(name)])
    /\ "status" \in DOMAIN context_sources[KeyOf(name)].value
    /\ context_sources[KeyOf(name)].value.status = "OK"

\* the confidence field of that entry, 0.0 when it has none
OwnConfidence(name) ==
    IF "confidence" \in DOMAIN context_sources[KeyOf(name)].value
    THEN context_sources[KeyOf(name)].value.confidence
    ELSE 0

RuleA == Completed /\ Relevant # <<>> /\ DOMAIN Scores # {}

C3_Rank(name) ==
    IF name \in DOMAIN Scores THEN Scores[name]
    ELSE IF EntryOK(name) THEN OwnConfidence(name) ELSE 0

OkIndexes == {i \in 1..4 : EntryOK(SourceNames[i])}

\* C4: when relevant_sources or relevance_scores is empty, the source used is
\* the first source in the order RAG, Memory, Web, ArXiv among the sources
\* with status OK of highest own confidence, and NONE when no source has
\* status OK; with no relevance scores its confidence is the reported one.
C4_FallbackToAvailable ==
    (Completed /\ (Relevant = <<>> \/ DOMAIN Scores = {})) =>
        IF OkIndexes = {}
        THEN result.source_used = "NONE"
        ELSE \E i \in OkIndexes :
                /\ result.source_used = SourceNames[i]
                /\ \A j \in OkIndexes :
                      /\ OwnConfidence(SourceNames[j]) <= OwnConfidence(SourceNames[i])
                      /\ j < i => OwnConfidence(SourceNames[j]) < OwnConfidence(SourceNames[i])
                /\ DOMAIN Scores = {} =>
                      result.confidence = OwnConfidence(SourceNames[i])

\* C4 witness: no relevant sources, only memory_result has status OK, with
\* confidence 0.4, and the response names Memory with confidence 0.4.
C4_Witness ==
    /\ Completed
    /\ Relevant = <<>>
    /\ OkIndexes = {2}
    /\ OwnConfidence("Memory") = 4000
    /\ result.source_used = "Memory"
    /\ result.confidence = 4000

Chosen == result.source_used

HasEntry(name) == name \in Range(SourceNames)

ScoreMax == CHOOSE v \in Range(Scores) : \A w \in Range(Scores) : w <= v

OkNames == {SourceNames[i] : i \in OkIndexes}

OkConfidenceMax ==
    CHOOSE v \in {OwnConfidence(n) : n \in OkNames} :
        \A n \in OkNames : OwnConfidence(n) <= v

C6_StatusBoundary ==
    Completed =>
        /\ result.status = "INSUFFICIENT_CONTEXT" <=> result.confidence = 0
        /\ result.confidence > 0 => result.status = "OK"

\* C6 witness: a response with confidence 0.0001 and status OK.
C6_Witness ==
    /\ Completed
    /\ result.confidence = 1
    /\ result.status = "OK"

\* C7: a final response with status OK has a non-empty answer.
C7_OkHasAnswer ==
    (Completed /\ result.status = "OK") => result.answer # <<>>

\* the citations list of a context entry; an entry that is no object has none
CitationList(key) ==
    IF IsDict(context_sources[key]) /\ "citations" \in DOMAIN context_sources[key].value
    THEN context_sources[key].value.citations
    ELSE <<>>

\* C8: the final citations are the four sources' citation lists concatenated
\* in the order rag_result, memory_result, web_result, tool_result, nothing
\* dropped or merged, whatever the status of a source and whichever source
\* was used.
C8_CitationsConcatenated ==
    Completed =>
        /\ result.citations =
              CitationList("rag_result") \o CitationList("memory_result")
              \o CitationList("web_result") \o CitationList("tool_result")
        /\ Len(result.citations) =
              Len(CitationList("rag_result")) + Len(CitationList("memory_result"))
              + Len(CitationList("web_result")) + Len(CitationList("tool_result"))

\* C8 witness: a source with status ERROR and a source with status OK both
\* cite c1, and the final list holds c1 twice.
C8_Witness ==
    /\ Completed
    /\ EntryStatus(context_sources["rag_result"]) = "ERROR"
    /\ CitationList("rag_result") = FullCitations
    /\ CitationList("web_result") = <<"c1">>
    /\ result.citations = FullCitations \o <<"c1">>
    /\ Chosen = "Web"

\* RAG answered OK with confidence 0.8 and one citation; Memory, Web and Tool
\* answered INSUFFICIENT_CONTEXT
C9_Scenario ==
    /\ Completed
    /\ tasks_output["rag_result"] = TaskRaw(OkPayload)
    /\ \A k \in Range(SourceKeys) \ {"rag_result"} : tasks_output[k] = QuietOutcome

C9_Outcome ==
    /\ result.source_used = "RAG"
    /\ result.status = "OK"
    /\ result.confidence = 8000

\* C9 as stated: in that scenario the response has source RAG, status OK,
\* confidence 0.8 and exactly the RAG citation, whatever the evaluator said.
C9_EndToEndAnyEvaluation ==
    C9_Scenario => (C9_Outcome /\ result.citations = <<"c1">>)

\* C9 amended: in that scenario the citations are exactly the RAG citation
\* whatever the evaluator said, and the response has source RAG, status OK
\* and confidence 0.8 when the evaluation carries no relevance scores.
C9_EndToEndFallback ==
    C9_Scenario =>
        /\ result.citations = <<"c1">>
        /\ DOMAIN Scores = {} => C9_Outcome

\* C9 witness: the scenario with the evaluator's unstructured fallback.
C9_Witness ==
    /\ C9_Scenario
    /\ "raw_fallback" \in DOMAIN evaluation_result
    /\ C9_Outcome
    /\ result.citations = <<"c1">>

\* a call of the normaliser on a JSON object that has no status field
StatuslessObject ==
    /\ pc = "parsed"
    /\ raw_result.json = "object"
    /\ "status" \notin DOMAIN raw_result.value

FieldOf(field) ==
    IF field \in DOMAIN raw_result.value THEN raw_result.value[field] ELSE <<>>

NormalizedStatus == parsed_result.value.value.status

\* the payload has an error key, or "error" in any letter case in its text
C10_MentionsError ==
    \/ "error" \in DOMAIN raw_result.value
    \/ \E f \in TextFields : \E i \in DOMAIN FieldOf(f) :
          FieldOf(f)[i] \in {"error", "Error", "ValueError"}

\* the payload has an error key, or "Error" with a capital E in its text
C10_HasErrorMarker ==
    \/ "error" \in DOMAIN raw_result.value
    \/ \E f \in TextFields : \E i \in DOMAIN FieldOf(f) :
          FieldOf(f)[i] \in {"Error", "ValueError"}

C10_Empty == FieldOf("answer") = <<>> /\ FieldOf("citations") = <<>>

\* C10 as stated: a JSON object without a status field gets status ERROR if it
\* contains "error", else INSUFFICIENT_CONTEXT if answer and citations are
\* both empty or absent, else OK.
C10_InferredStatus ==
    StatuslessObject =>
        /\ parsed_result.raised = ""
        /\ NormalizedStatus =
              IF C10_MentionsError THEN "ERROR"
              ELSE IF C10_Empty THEN "INSUFFICIENT_CONTEXT"
              ELSE "OK"

\* C10 amended: the error case is an error key or the capitalised substring
\* "Error" in the payload's text; "error" in lower case in the content alone
\* is not an error.  The three cases are tried in that order.
C10_InferredStatusCapitalError ==
    StatuslessObject =>
        /\ parsed_result.raised = ""
        /\ NormalizedStatus =
              IF C10_HasErrorMarker THEN "ERROR"
              ELSE IF C10_Empty THEN "INSUFFICIENT_CONTEXT"
              ELSE "OK"

\* C10 witness: an object with an error key and neither answer nor citations
\* is normalised to ERROR, not to INSUFFICIENT_CONTEXT.
C10_Witness ==
    /\ StatuslessObject
    /\ "error" \in DOMAIN raw_result.value
    /\ C10_Empty
    /\ NormalizedStatus = "ERROR"

\* a call of the normaliser on a JSON object
ObjectNormalized == pc = "parsed" /\ raw_result.json = "object"

\* C11: for every JSON-object payload the normalised record holds every
\* field of the input with its value unchanged, the only field it can hold
\* beyond those of the input is status, and a payload that already has a
\* status field is returned identical to the input.
C11_NormalizationAdditive ==
    ObjectNormalized =>
        /\ parsed_result.raised = ""
        /\ parsed_result.value.json = "object"
        /\ \A f \in DOMAIN raw_result.value :
              /\ f \in DOMAIN parsed_result.value.value
              /\ parsed_result.value.value[f] = raw_result.value[f]
        /\ DOMAIN parsed_result.value.value
              \subseteq DOMAIN raw_result.value \cup {"status"}
        /\ "status" \in DOMAIN raw_result.value
              => parsed_result.value = raw_result

\* C11 witness: a payload with context, error and error_type and no status
\* comes back with the three fields as they were and a status added.
C11_Witness ==
    /\ ObjectNormalized
    /\ {"context", "error", "error_type"} \subseteq DOMAIN raw_result.value
    /\ "status" \notin DOMAIN raw_result.value
    /\ parsed_result.value.value.context = raw_result.value.context
    /\ parsed_result.value.value.error = raw_result.value.error
    /\ "status" \in DOMAIN parsed_result.value.value

\* a call of the normaliser on text that json.loads rejects
TextNormalized == pc = "parsed" /\ raw_result.json = "invalid"

\* the text has "error" or "failed" in it, in any letter case
C12_LooksLikeError ==
    \E i \in DOMAIN raw_result.value :
        raw_result.value[i]
            \in {"error", "Error", "ValueError", "failed", "FAILED"}

\* C12: for every raw output that is not valid JSON the normalised record has
\* status ERROR and confidence 0.0 when the text contains "error" or "failed"
\* in any letter case, and status OK and confidence 0.5 otherwise; in both
\* cases the answer is the raw text and citations is empty.
C12_TextClassification ==
    TextNormalized =>
        /\ parsed_result.raised = ""
        /\ parsed_result.value.json = "object"
        /\ LET record == parsed_result.value.value
           IN  /\ record.status = IF C12_LooksLikeError THEN "ERROR" ELSE "OK"
               /\ record.confidence = IF C12_LooksLikeError THEN 0 ELSE 5000
               /\ record.answer = raw_result.value
               /\ record.citations = <<>>

\* C12 witness: the upper-case text FAILED is classified as an error.
C12_Witness ==
    /\ TextNormalized
    /\ raw_result.value = <<"FAILED">>
    /\ parsed_result.value.value.status = "ERROR"
    /\ parsed_result.value.value.confidence = 0
    /\ parsed_result.value.value.answer = <<"FAILED">>

\* the evaluation task gave no ContextEvaluationResult, only raw text
EvaluatorFellBack ==
    evaluation_output # None /\ evaluation_output.kind = "raw"

\* C13: when the evaluator's output does not parse into the evaluation schema
\* the flow goes on: the evaluation stage returns a filtered_context and an
\* evaluation result without relevant_sources and relevance_scores, and a
\* response that is returned names the source the available-sources
\* fallback selects, with that source's confidence.
C13_FallbackContinues ==
    EvaluatorFellBack =>
        /\ evaluation_result # None
        /\ filtered_context # None
        /\ DOMAIN evaluation_result
              \cap {"relevant_sources", "relevance_scores"} = {}
        /\ Completed =>
              IF OkIndexes = {}
              THEN result.source_used = "NONE"
              ELSE \E i \in OkIndexes :
                      /\ result.source_used = SourceNames[i]
                      /\ result.confidence = OwnConfidence(SourceNames[i])

\* the assistant's turn is in the memory log
AssistantSaved == \E i \in DOMAIN memory : memory[i].role = "assistant"

\* C16: within one query the stages run in the order process_query,
\* aggregate, evaluate, synthesize: the aggregation has run only after the
\* query was taken in, the evaluation only with the four normalised adapter
\* results collected, the synthesis only with the evaluation result and the
\* filtered context in hand, and a final response exists only after the
\* synthesis.
C16_StagesInOrder ==
    /\ tasks_output # None => memory # <<>>
    /\ evaluation_output # None =>
          /\ tasks_output # None
          /\ context_sources # None
          /\ DOMAIN context_sources = Range(SourceKeys)
    /\ AssistantSaved =>
          /\ evaluation_output # None
          /\ evaluation_result # None
          /\ filtered_context # None
    /\ result # None => AssistantSaved /\ Completed
    /\ Completed => result # None

\* C16 witness: a query that went through the four stages.
C16_Witness ==
    /\ Completed
    /\ context_sources # None
    /\ evaluation_result # None
    /\ AssistantSaved
    /\ result.answer = <<"fine">>

\* the user's turn of the query; a text of the model is below the limit of
\* 1500 characters, so its condensed form is the text itself
UserTurn == [role |-> "user", content |-> query]

\* C17: a query that completes leaves exactly two turns in memory: first the
\* condensed query as the user's turn, which is there before aggregation and
\* synthesis begin, then the condensed synthesized answer as the assistant's
\* turn, which is there only after synthesis and no later than the response.
C17_TwoTurnsInOrder ==
    /\ pc = "ready" => memory = <<>>
    /\ pc \in {"processing", "gathered", "evaluated"} => memory = <<UserTurn>>
    /\ tasks_output # None => memory # <<>> /\ memory[1] = UserTurn
    /\ result # None => Len(memory) = 2
    /\ Completed =>
          memory = <<UserTurn,
                     [role |-> "assistant", content |-> result.answer]>>

\* C17 witness: a completed query with the question and the answer in memory.
C17_Witness ==
    /\ Completed
    /\ query = <<"status", "error">>
    /\ memory = <<[role |-> "user", content |-> <<"status", "error">>],
                  [role |-> "assistant", content |-> <<"fine">>]>>

\* C19: when a stage after process_query raises, the memory store holds
\* neither the user turn nor the assistant turn of the query.
C19_NoPartialCommit == pc = "error" => memory = <<>>

\* a call of the condensation on a text longer than the limit
Condensed == pc = "condensed"

TooLong == Len(summarize_args.response) > summarize_args.max_length

\* C20: condensation returns the text unchanged when its length is at most
\* max_length; otherwise it returns a prefix of the text of at most
\* max_length characters followed by the truncation marker, so the result is
\* no longer than max_length plus the length of the marker.
C20_CondensationBound ==
    Condensed =>
        IF ~TooLong
        THEN summarized_response = summarize_args.response
        ELSE /\ \E marker \in {SentenceMarker, CutMarker} :
                   \E k \in 0..summarize_args.max_length :
                      summarized_response =
                          SubSeq(summarize_args.response, 1, k) \o marker
             /\ Len(summarized_response)
                   <= summarize_args.max_length + Len(CutMarker)

\* C20 witness: a text without sentence end or space is cut at max_length
\* and the result has max_length characters plus the marker.
C20_Witness ==
    /\ Condensed
    /\ TooLong
    /\ summarize_args.max_length = MaxLength
    /\ Len(summarized_response) = MaxLength + Len(CutMarker)

\* C14: in every execution of the aggregation stage no adapter waits for
\* another adapter: a task that has not started can start whatever the
\* other three are doing.
C14_NoAdapterWaits ==
    pc = "processing" =>
        \A k \in Range(SourceKeys) :
            task_state[k] = Pending => ENABLED start_task(k)

AdapterHung == \E k \in Range(SourceKeys) : task_state[k] = Hung

\* C15: if one adapter never responds, its call is cut off and becomes an
\* ERROR entry, so the aggregation stage eventually completes with the four
\* entries collected.
C15_HungAdapterCutOff ==
    AdapterHung ~> (pc = "gathered" /\ context_sources # None)

\* the two turns of a request that completed; the texts of the model are
\* below the limits, so the condensed text is the text
TurnsOf(r) ==
    <<[role |-> "user", content |-> in_flight[r].query],
      [role |-> "assistant", content |-> in_flight[r].final_response]>>

\* C18: when two queries on the same thread are in flight at once and both
\* complete, the memory log holds the user turn of one query, its assistant
\* turn, then the user turn of the other query and its assistant turn.
C18_TurnsNotInterleaved ==
    (pc = "serving" /\ \A r \in Requests : in_flight[r].stage = "completed") =>
        \E r1 \in Requests : \E r2 \in Requests \ {r1} :
            memory = TurnsOf(r1) \o TurnsOf(r2)

\* the last request was an upload that ended in one of the five outcomes:
\* success, assistant-initialization failure, parsing failure, embedding
\* failure, authentication failure
UploadReturned ==
    /\ pc = "serving"
    /\ server.last.endpoint = "upload"
    /\ server.last.detail \in {"processed successfully",
                                "Failed to initialize Research Assistant",
                                "Document parsing failed",
                                "Embedding generation failed",
                                "API authentication failed"}

\* C21: whatever the outcome of the upload-document operation, the temporary
\* file written for the upload no longer exists when the endpoint returns.
C21_TempFileCleanedUp ==
    UploadReturned => server.last.file \notin server.temp_files

\* C22: every evaluation result that reaches the arbiter has, for each name
\* in relevant_sources, an entry in relevance_scores and an entry in
\* filtered_context.
C22_RelevantSourcesScored ==
    Completed =>
        \A i \in DOMAIN Relevant :
            /\ Relevant[i] \in DOMAIN Scores
            /\ Relevant[i] \in DOMAIN evaluation_result.filtered_context

\* the first max_length characters of the text
Kept == SubSeq(summarize_args.response, 1, summarize_args.max_length)

\* the last position, counted from 1, of a character of the set in Kept, and
\* 0 when there is none; the position p is Python's index p - 1
LastOf(chars) ==
    LET at == {i \in DOMAIN Kept : Kept[i] \in chars}
    IN  IF at = {} THEN 0 ELSE CHOOSE i \in at : \A j \in at : j <= i

\* an index beyond 70% (80%) of max_length
BeyondSentenceMark(p) == 10 * (p - 1) > 7 * summarize_args.max_length

BeyondSpaceMark(p) == 10 * (p - 1) > 8 * summarize_args.max_length

\* the cut of C23 when the whitespace rule looks for the given characters;
\* the marker of a cut after a sentence end has no leading dots
C23_Cut(whitespace) ==
    LET sentence_end == LastOf({".", "!", "?"})
        space == LastOf(whitespace)
    IN  IF BeyondSentenceMark(sentence_end)
        THEN SubSeq(Kept, 1, sentence_end) \o SentenceMarker
        ELSE IF BeyondSpaceMark(space)
             THEN SubSeq(Kept, 1, space - 1) \o CutMarker
             ELSE Kept \o CutMarker

\* C23 as stated: for a text longer than max_length, if the last '.', '!' or
\* '?' of the first max_length characters lies beyond 70% of max_length the
\* text is cut just after it; otherwise if the last whitespace character lies
\* beyond 80% of max_length the text is cut just before it; otherwise all
\* max_length characters are kept; the marker is appended in each case.
C23_CutPrecedence ==
    (Condensed /\ TooLong) =>
        summarized_response = C23_Cut({" ", "\n"})

\* C23 amended: the whitespace rule looks for the space character only; a
\* line break is a character like any other.
C23_CutPrecedenceSpaceOnly ==
    (Condensed /\ TooLong) =>
        summarized_response = C23_Cut({" "})

\* C23 witness: a sentence end and a later space both lie beyond their marks
\* and the text is cut after the sentence end.
C23_Witness ==
    /\ Condensed
    /\ TooLong
    /\ summarize_args.max_length = MaxLength
    /\ BeyondSentenceMark(LastOf({".", "!", "?"}))
    /\ BeyondSpaceMark(LastOf({" "}))
    /\ summarized_response =
          SubSeq(Kept, 1, LastOf({".", "!", "?"})) \o SentenceMarker

Initialized == server.assistant # 0 /\ server.qdrant_initialized

\* the response of a request whose get_assistant call raised
InitializationFailed ==
    \/ server.last.endpoint = "initialize" /\ server.last.code = 500
    \/ /\ server.last.endpoint = "upload"
       /\ server.last.detail = "Failed to initialize Research Assistant"

\* C24: over any sequence of initialize, status, upload and query requests
\* at most one assistant is ever constructed successfully, an initialized
\* server keeps its instance and constructs no other, _qdrant_initialized is
\* true only when _assistant is set, the initialize endpoint answers 200 with
\* that one instance, and a request whose construction failed is answered
\* with an error and leaves _assistant unset and _qdrant_initialized false.
C24_InitializeOnce ==
    /\ [](/\ server.instances <= 1
          /\ server.qdrant_initialized => server.assistant # 0
          /\ (server.last.endpoint = "initialize" /\ server.last.code = 200)
                => (Initialized /\ server.last.assistant = server.assistant)
          /\ InitializationFailed
                => (server.last.code = 500 /\ server.assistant = 0
                    /\ ~server.qdrant_initialized))
    /\ [][Initialized => /\ server'.assistant = server.assistant
                         /\ server'.instances = server.instances
                         /\ server'.qdrant_initialized]_vars

\* C24 witness: an upload failed and left its file behind, the one assistant
\* was constructed, and later uploads and a query were served by it.
C24_Witness ==
    /\ Initialized
    /\ server.instances = 1
    /\ server.uploads >= 2
    /\ server.temp_files # {}
    /\ server.kickoffs >= 1

\* the ids an insert assigned
AssignedIds(ins) == ins.start_id .. (ins.start_id + ins.n - 1)

\* C25: an insert of n chunks assigns the ids start .. start + n - 1 where
\* start is the point count of the collection at the beginning of the
\* insert; the ids of a later insert into the same collection are all
\* greater than those of an earlier one, and every point an insert stored is
\* still the point of that insert afterwards.
C25_IdsIncrease ==
    pc = "vector_db" =>
        \A k \in DOMAIN vector_db.inserts :
            LET ins == vector_db.inserts[k]
            IN  /\ ins.start_id = ins.points_count
                /\ \A j \in 1..(k - 1) :
                      LET earlier == vector_db.inserts[j]
                      IN  earlier.client = ins.client =>
                            \A a \in AssignedIds(earlier), b \in AssignedIds(ins) :
                                a < b
                /\ \A id \in AssignedIds(ins) :
                      vector_db.points[ins.client][id + 1] = ins.call

\* C29: after any sequence of constructions at most one client was created
\* per normalized storage path, every entry of the client cache is a client
\* that was opened on the path of its key, and the client of every instance
\* was opened on the path of the instance.
C29_ClientOfSamePath ==
    pc = "vector_db" =>
        /\ \A c, d \in DOMAIN vector_db.opened :
              vector_db.opened[c] = vector_db.opened[d] => c = d
        /\ \A p \in StoragePaths :
              vector_db.CLIENT_CACHE[p] # 0 =>
                  vector_db.opened[vector_db.CLIENT_CACHE[p]] = p
        /\ \A i \in DOMAIN vector_db.instances :
              vector_db.opened[vector_db.instances[i].client] =
                  vector_db.instances[i].db_path

\* C26: for every raw output, valid JSON that is no object included, the
\* normaliser returns a record whose status is OK, INSUFFICIENT_CONTEXT or
\* ERROR, and never raises.
C26_NormalizerTotal ==
    pc = "parsed" =>
        /\ parsed_result.raised = ""
        /\ IsDict(parsed_result.value)
        /\ "status" \in DOMAIN parsed_result.value.value
        /\ parsed_result.value.value.status
              \in {"OK", "INSUFFICIENT_CONTEXT", "ERROR"}

\* the last request was a query whose flow was started
QueryStarted ==
    /\ pc = "serving"
    /\ server.last.endpoint = "query"
    /\ "thread" \in DOMAIN server.last

\* C27: the turns a query writes go to the memory thread named by the
\* thread_id of its request, never to another thread such as the default
\* thread the flow was constructed with.
C27_TurnsInRequestThread ==
    QueryStarted => memory[Len(memory)].thread = server.last.thread

Responded == pc = "responded" /\ response_data.status_code = 200

\* the relevance score and the own confidence of a source, where it has one
ValuesOf(name) ==
    {Scores[n] : n \in DOMAIN Scores \cap {name}}
    \cup {EntryConfidence(context_sources[KeyOf(n)]) :
             n \in {m \in Range(SourceNames) \cap {name} :
                       IsDict(context_sources[KeyOf(m)])}}

\* C28: in every response data object of the query endpoint the status is
\* INSUFFICIENT_CONTEXT exactly when the reported confidence is 0.0, and a
\* reported confidence that is not zero is the relevance score or the own
\* confidence of the reported source_used.
C28_ResponseCoherent ==
    Responded =>
        /\ response_data.data.status = "INSUFFICIENT_CONTEXT"
              <=> response_data.data.confidence = 0
        /\ response_data.data.confidence # 0
              => response_data.data.confidence
                    \in ValuesOf(response_data.data.source_used)

\* a step in which a request of the endpoint is answered
Answers(endpoint) ==
    /\ server'.handled = server.handled + 1
    /\ server'.last.endpoint = endpoint

\* C30: a query is processed only while the gate is open; a query that
\* finds it closed is answered 400 and leaves the assistant, the pipeline and
\* the memory alone; only an upload that is answered 200 opens the gate; and
\* an open gate stays open.
C30_QueryGate ==
    [][/\ server'.kickoffs # server.kickoffs => server.document_processed
       /\ (Answers("query") /\ ~server.document_processed)
             => /\ server'.last.code = 400
                /\ memory' = memory
                /\ server' = Responds(server, server'.last)
       /\ (~server.document_processed /\ server'.document_processed)
             => (Answers("upload") /\ server'.last.code = 200)
       /\ (Answers("upload") /\ server'.last.code # 200)
             => server'.document_processed = server.document_processed
       /\ server.document_processed => server'.document_processed]_vars

\* C30 witness: an upload failed and left the gate as it was, another one
\* opened it, and a query was then processed and answered.
C30_Witness ==
    /\ pc = "serving"
    /\ server.document_processed
    /\ server.uploads >= 2
    /\ server.temp_files # {}
    /\ server.last.endpoint = "query"
    /\ server.last.code = 200
    /\ Len(memory) = 2

====
